---- MODULE Spec2Model ----
(***************************************************************************)
(* A model of the cash-flow analyzer: the CashFlowAnalyzer object of       *)
(* cash_flow_analyzer.py (load_data, preprocess_data, analyze_cash_flow,   *)
(* a chart and the Excel export), the text normalizer and the response     *)
(* parser of pdf_extractor.py, and the run of app2.py.                     *)
(*                                                                         *)
(* A DataFrame is a record [columns, rows]: the set of its column names    *)
(* and the sequence of its rows.  A row carries every field; a field whose *)
(* column is not in `columns` holds the missing marker of its type; `dup`   *)
(* is the set of the column names the frame has twice.  A date cell that   *)
(* still holds the JSON value it was delivered as has the kind of that     *)
(* value in date_json ("" once it is a Timestamp or NaT).                  *)
(* Dates are integers yyyymmdd, NaT is the missing date.  An amount is a   *)
(* record [nan, v]: NaN, or the number v.  A missing string is Null.       *)
(* An optional value (Python None, or the empty dict) is the empty tuple.  *)
(***************************************************************************)
EXTENDS Integers, Sequences, FiniteSets, TLC

\* ------------------------------------------------------------ bounds
\* the largest number of transactions of a raw ledger
MaxRows == 2
\* the largest number of transaction objects of a response of the model
MaxItems == 2
\* the largest number of pieces a statement text is put together from
MaxPieces == 4
\* the largest number of times _preprocess_text is applied in a row
MaxPasses == 2

\* ------------------------------------------------------------ values
None == <<>>
Some(x) == <<x>>
Get(o) == o[1]

\* pandas NaT: the missing date; every calendar date is greater
NaT == 0
\* a missing string field (JSON null, Python None)
Null == "null"
\* numpy NaN, and a usable number
NaN == [nan |-> TRUE, v |-> 0]
Num(n) == [nan |-> FALSE, v |-> n]

\* comparisons with NaN are false
Gt0(a) == (~a.nan) /\ a.v > 0
Lt0(a) == (~a.nan) /\ a.v < 0
Le0(a) == (~a.nan) /\ a.v <= 0
Ge0(a) == (~a.nan) /\ a.v >= 0
\* abs() and unary minus keep NaN
Abs(a) == IF a.nan THEN NaN ELSE Num(IF a.v < 0 THEN -a.v ELSE a.v)
Neg(a) == IF a.nan THEN NaN ELSE Num(-a.v)

\* ------------------------------------------------------------ input sets
Dates == {20231220, 20240210}
Amounts == {-2, 3}
Types == {"debit", "credit"}
Categories == {"Food"}

RawAmounts == {Num(n) : n \in Amounts} \cup {NaN}
RawDates == Dates \cup {NaT}
RawCategories == Categories \cup {Null}

\* the column sets pd.DataFrame(transactions) can have: a key no transaction
\* carries gives no column
ColumnSets == { {"date", "amount", "type", "category"},
                {"date", "amount", "type"},
                {"date", "amount", "category"} }

\* the transactions of a raw ledger with these columns: a date and an amount
\* (possibly missing), a type when there is a type column, and a category
\* (possibly null) when there is a category column
RawTx(cols) ==
    [date : RawDates, amount : RawAmounts,
     type : IF "type" \in cols THEN Types ELSE {Null},
     category : IF "category" \in cols THEN RawCategories ELSE {Null}]

\* a row of a DataFrame: the transaction under its index
MkRow(i, t) ==
    [idx |-> i, date |-> t.date, date_json |-> "", amount |-> t.amount,
     type |-> t.type, category |-> t.category,
     month |-> 0, year |-> 0, year_month |-> NaT]

\* pd.DataFrame(transactions)
DataFrame(txs, cols) ==
    [columns |-> IF Len(txs) = 0 THEN {} ELSE cols,
     dup |-> {},
     rows |-> [i \in 1..Len(txs) |-> MkRow(i, txs[i])]]

\* DataFrame.empty
Empty(df) == Len(df.rows) = 0 \/ df.columns = {}

\* the ledger of the worked example: a salary and two food expenses over two
\* months, as extracted
ScenarioLedger ==
    DataFrame(<<[date |-> 20240105, amount |-> Num(50000), type |-> "credit",
                 category |-> "Income"],
                [date |-> 20240110, amount |-> Num(-12000), type |-> "debit",
                 category |-> "Food"],
                [date |-> 20240201, amount |-> Num(-3000), type |-> "debit",
                 category |-> "Food"]>>,
              {"date", "amount", "type", "category"})

\* ------------------------------------------------------------ CashFlowAnalyzer
\* a sorts before b: ascending dates, NaT last
Before(a, b) == a.date # NaT /\ (b.date = NaT \/ a.date < b.date)

\* r put into the sorted s behind every row that does not sort after it
Insert(s, r) ==
    LET n == Cardinality({ i \in 1..Len(s) : ~Before(r, s[i]) })
    IN  SubSeq(s, 1, n) \o <<r>> \o SubSeq(s, n + 1, Len(s))

\* DataFrame.sort_values('date'): numpy sorts fewer than 17 rows by insertion,
\* so rows of one date keep their order
RECURSIVE sort_values(_)
sort_values(rows) ==
    IF rows = <<>> THEN <<>>
    ELSE Insert(sort_values(SubSeq(rows, 1, Len(rows) - 1)), rows[Len(rows)])

\* the exception load_data raises on df, "none" when it returns: df['date']
\* of a name the frame has twice is a DataFrame pd.to_datetime cannot
\* assemble, a string that is no date is not coerced, and sort_values needs
\* the column
load_error(df) ==
    IF "date" \notin df.columns THEN "KeyError"
    ELSE IF "date" \in df.dup THEN "ValueError"
    ELSE IF \E i \in 1..Len(df.rows) : df.rows[i].date_json = "text" THEN "ValueError"
    ELSE "none"

\* df once load_data has assigned df['date'] = pd.to_datetime(df['date']):
\* the same DataFrame object, whoever else holds it
dates_converted(df) ==
    [df EXCEPT !.rows = [i \in 1..Len(df.rows) |-> [df.rows[i] EXCEPT !.date_json = ""]]]

\* the DataFrame load_data leaves in self.transactions: sorted when nothing
\* was raised, else the frame as it was handed over
loaded(df) ==
    IF load_error(df) = "none"
    THEN [df EXCEPT !.rows = sort_values(dates_converted(df).rows)]
    ELSE df

\* Series.dt.strftime('%Y-%m'), a missing key for NaT
strftime_ym(d) == IF d = NaT THEN NaT ELSE d \div 100

\* the category column after fillna('Other', inplace=True) on the column of the
\* frame, which writes through to the frame (pandas without copy-on-write)
fillna_category_lost(c) == c
fillna_category(c) == IF c = Null THEN "Other" ELSE c

\* the amount after the sign is taken from the type
sign_trust_amount(type, a) == a
sign_negate_debit(type, a) == IF type = "debit" THEN Neg(a) ELSE a
sign_from_type(type, a) ==
    IF type = "debit" THEN Neg(Abs(a))
    ELSE IF type = "credit" THEN Abs(a)
    ELSE a

\* one row through preprocess_data
preprocess_row(r, cols) ==
    [r EXCEPT !.month = IF r.date = NaT THEN 0 ELSE (r.date \div 100) % 100,
              !.year = IF r.date = NaT THEN 0 ELSE r.date \div 10000,
              !.year_month = strftime_ym(r.date),
              !.category = IF "category" \in cols THEN fillna_category(@) ELSE @,
              !.amount = IF "type" \in cols /\ "amount" \in cols
                         THEN sign_from_type(r.type, @) ELSE @]

\* the DataFrame preprocess_data leaves in self.transactions
preprocessed_dropna(df) ==
    LET kept == SelectSeq(df.rows, LAMBDA r : r.date # NaT /\ ~r.amount.nan)
    IN  [columns |-> df.columns \cup {"month", "year", "year_month"},
         dup |-> df.dup,
         rows |-> [i \in 1..Len(kept) |-> preprocess_row(kept[i], df.columns)]]
preprocessed(df) ==
    [columns |-> df.columns \cup {"month", "year", "year_month"},
     dup |-> df.dup,
     rows |-> [i \in 1..Len(df.rows) |-> preprocess_row(df.rows[i], df.columns)]]

\* ------------------------------------------------------------ analyze_cash_flow
\* Series.sum(): NaN is skipped, the sum of nothing is 0
RECURSIVE sum(_)
sum(rows) ==
    IF rows = <<>> THEN 0
    ELSE (IF rows[1].amount.nan THEN 0 ELSE rows[1].amount.v) + sum(Tail(rows))

\* the count of a groupby: the rows whose amount is not NaN
count(rows) == Len(SelectSeq(rows, LAMBDA r : ~r.amount.nan))

abs_sign_kept(n) == n
abs(n) == IF n < 0 THEN -n ELSE n

negative_as_positive(rows) == SelectSeq(rows, LAMBDA r : Gt0(r.amount))

\* the rows with amount > 0, and with amount < 0
positive(rows) == SelectSeq(rows, LAMBDA r : Gt0(r.amount))
negative(rows) == SelectSeq(rows, LAMBDA r : Lt0(r.amount))

\* the rows of one group of groupby('year_month') and of groupby('category')
in_month(rows, ym) == SelectSeq(rows, LAMBDA r : r.year_month = ym)
in_category(rows, c) == SelectSeq(rows, LAMBDA r : r.category = c)

\* the keys of groupby('year_month'): a missing key makes no group
months_of(rows) == { rows[i].year_month : i \in 1..Len(rows) } \ {NaT}

\* sorted(list(S)) of a set of integers
RECURSIVE sorted(_)
sorted(S) ==
    IF S = {} THEN <<>>
    ELSE LET m == CHOOSE x \in S : \A y \in S : x <= y
         IN  <<m>> \o sorted(S \ {m})

\* Series.min() and Series.max() of the dates: NaT is skipped, NaT when all are
valid_dates(rows) == { rows[i].date : i \in 1..Len(rows) } \ {NaT}
min_date(rows) ==
    IF valid_dates(rows) = {} THEN NaT
    ELSE CHOOSE d \in valid_dates(rows) : \A e \in valid_dates(rows) : d <= e
max_date(rows) ==
    IF valid_dates(rows) = {} THEN NaT
    ELSE CHOOSE d \in valid_dates(rows) : \A e \in valid_dates(rows) : d >= e

\* monthly_cash_flow: groupby('year_month').agg(sum, count), keys ascending
monthly_cash_flow_of(rows) ==
    LET keys == sorted(months_of(rows))
    IN  [k \in 1..Len(keys) |->
            [year_month |-> keys[k],
             net_flow |-> sum(in_month(rows, keys[k])),
             num_transactions |-> count(in_month(rows, keys[k]))]]

\* the months all_months lists: those of the income and of the expenses series
all_months_income(rows) == months_of(positive(rows))
all_months(rows) == months_of(positive(rows)) \cup months_of(negative(rows))

\* n / d rounded to an integer, halves to the even neighbour (d > 0)
round_div(n, d) ==
    LET q == n \div d
        r == n % d
    IN  IF 2 * r < d THEN q
        ELSE IF 2 * r > d THEN q + 1
        ELSE IF q % 2 = 0 THEN q ELSE q + 1

\* (savings / income * 100).round(2), in hundredths of a percent; the float
\* division by zero gives an infinity or NaN
savings_rate_raw(savings, income) ==
    IF income = 0
    THEN [kind |-> IF savings = 0 THEN "nan" ELSE IF savings < 0 THEN "-inf" ELSE "inf",
          x100 |-> 0]
    ELSE [kind |-> "num", x100 |-> round_div(savings * 10000, income)]

\* savings_rate once the rows with income == 0 are set to 0
savings_rate_no_guard(savings, income) == savings_rate_raw(savings, income)
savings_rate(savings, income) ==
    IF income = 0 THEN [kind |-> "num", x100 |-> 0]
    ELSE savings_rate_raw(savings, income)

\* monthly_income_vs_expenses: all_months left-merged with income and expenses,
\* the missing ones filled with 0
monthly_income_vs_expenses_of(rows) ==
    LET keys == sorted(all_months(rows))
        income(ym) == sum(in_month(positive(rows), ym))
        expenses(ym) == abs(sum(in_month(negative(rows), ym)))
    IN  [k \in 1..Len(keys) |->
            [year_month |-> keys[k],
             income |-> income(keys[k]),
             expenses |-> expenses(keys[k]),
             savings |-> income(keys[k]) - expenses(keys[k]),
             savings_rate |-> savings_rate(income(keys[k]) - expenses(keys[k]),
                                           income(keys[k]))]]

\* the categories in the order groupby('category') lists its keys
CategoryOrder == <<"Food", "Income", "Other">>

\* a category row put into the sorted s behind every row of an amount not smaller
InsertDesc_at_end(s, r) == s \o <<r>>
InsertDesc(s, r) ==
    LET n == Cardinality({ i \in 1..Len(s) : s[i].amount >= r.amount })
    IN  SubSeq(s, 1, n) \o <<r>> \o SubSeq(s, n + 1, Len(s))

\* Series.sort_values(ascending=False): rows of one amount keep their order
RECURSIVE sort_desc(_)
sort_desc(s) ==
    IF s = <<>> THEN <<>>
    ELSE InsertDesc(sort_desc(SubSeq(s, 1, Len(s) - 1)), s[Len(s)])

\* category_spending: the negative rows grouped by category, |sum| descending
category_spending_of(df) ==
    IF "category" \in df.columns
    THEN LET neg == negative(df.rows)
             keys == SelectSeq(CategoryOrder, LAMBDA c : Len(in_category(neg, c)) > 0)
         IN  sort_desc([k \in 1..Len(keys) |->
                 [category |-> keys[k], amount |-> abs(sum(in_category(neg, keys[k])))]])
    ELSE <<>>

\* monthly_category_spending: the negative rows grouped by (year_month, category)
RECURSIVE flatten(_)
flatten(ss) == IF ss = <<>> THEN <<>> ELSE ss[1] \o flatten(Tail(ss))

monthly_category_spending_of(df) ==
    IF "category" \in df.columns
    THEN LET neg == negative(df.rows)
             months == sorted(months_of(neg))
             group(ym) ==
                 LET m == in_month(neg, ym)
                     keys == SelectSeq(CategoryOrder, LAMBDA c : Len(in_category(m, c)) > 0)
                 IN  [k \in 1..Len(keys) |->
                        [year_month |-> ym, category |-> keys[k],
                         amount |-> abs(sum(in_category(m, keys[k])))]]
         IN  flatten([k \in 1..Len(months) |-> group(months[k])])
    ELSE <<>>

\* Series.cumsum(): a NaN amount gives a NaN balance and is skipped by the sum
cumsum_at(rows, i) ==
    IF rows[i].amount.nan THEN NaN ELSE Num(sum(SubSeq(rows, 1, i)))

\* running_balance: the ledger sorted by date with the cumulative sum
running_balance_of(rows) ==
    LET st == sort_values(rows)
    IN  [i \in 1..Len(st) |-> [date |-> st[i].date, running_balance |-> cumsum_at(st, i)]]

\* Series.mean() as the pair of the sum and the number of values (NaN when n = 0)
RECURSIVE total(_)
total(s) == IF s = <<>> THEN 0 ELSE s[1] + total(Tail(s))
mean(s) == [sum |-> total(s), n |-> Len(s)]

\* the summary of the bundle
summary_of(df) ==
    LET rows == df.rows
        mive == monthly_income_vs_expenses_of(rows)
        cats == category_spending_of(df)
    IN  [total_income |-> sum(positive(rows)),
         total_expenses |-> abs(sum(negative(rows))),
         net_flow |-> sum(rows),
         avg_monthly_income |-> mean([k \in 1..Len(mive) |-> mive[k].income]),
         avg_monthly_expenses |-> mean([k \in 1..Len(mive) |-> mive[k].expenses]),
         avg_savings_rate |-> mean([k \in 1..Len(mive) |-> mive[k].savings_rate.x100]),
         top_expense_category |-> IF cats # <<>> THEN cats[1].category ELSE Null,
         top_expense_amount |-> IF cats # <<>> THEN cats[1].amount ELSE 0,
         transaction_count |-> Len(rows),
         date_range |-> <<min_date(rows), max_date(rows)>>]

\* the dict analyze_cash_flow stores in self.analysis_results
analysis_of(df) ==
    [monthly_cash_flow |-> monthly_cash_flow_of(df.rows),
     monthly_income_vs_expenses |-> monthly_income_vs_expenses_of(df.rows),
     category_spending |-> category_spending_of(df),
     monthly_category_spending |-> monthly_category_spending_of(df),
     running_balance |-> running_balance_of(df.rows),
     summary |-> summary_of(df)]

\* the exception analyze_cash_flow raises on df, "none" when it returns
analyze_error(df) ==
    IF min_date(df.rows) = NaT THEN "ValueError"
    ELSE IF "year_month" \notin df.columns THEN "KeyError"
    ELSE "none"

\* `if not self.analysis_results: self.analyze_cash_flow()` at the head of a
\* chart or export method: the bundle the method goes on with and what the
\* call of analyze_cash_flow raised; a bundle already held is kept as it is
analyzed_if_missing(transactions, results) ==
    IF results # None THEN [raised |-> "none", results |-> results]
    ELSE IF transactions = None \/ Empty(Get(transactions))
    THEN [raised |-> "ValueError", results |-> results]
    ELSE IF analyze_error(Get(transactions)) # "none"
    THEN [raised |-> analyze_error(Get(transactions)), results |-> results]
    ELSE [raised |-> "none", results |-> Some(analysis_of(Get(transactions)))]

\* what generate_monthly_cash_flow_chart draws: the table it reads
chart_of(results) ==
    [call |-> "generate_monthly_cash_flow_chart",
     sheets |-> <<results.monthly_income_vs_expenses>>]

\* what export_to_excel writes: the ledger and four tables of the bundle
excel_of(df, results) ==
    [call |-> "export_to_excel",
     sheets |-> <<df, results.monthly_cash_flow, results.monthly_income_vs_expenses,
                  results.category_spending, results.summary>>]

\* the DataFrames load_data may be handed when df is the one at hand: df
\* itself, or the ledger of another statement, here the first transaction
\* of df alone
Statements(df) ==
    {df} \cup (IF Len(df.rows) > 1
               THEN {[df EXCEPT !.rows = SubSeq(df.rows, 1, 1)]} ELSE {})

\* ------------------------------------------------------------ GPTBankStatementExtractor
\* The content of a response is a text, modelled as the sequence of its JSON
\* tokens: the brackets, braces and commas, "T" for the key "transactions"
\* with its colon, "\n" for white space, and one letter for the members of
\* one transaction object.
Payloads == {"a", "b", "c", "n", "D"}

\* a JSON value of a transaction: an ISO date string, a number, a string that
\* is neither, or null
JDate(d) == [kind |-> "date", v |-> d]
JNum(n) == [kind |-> "num", v |-> n]
JText == [kind |-> "text", v |-> 0]
JNull == [kind |-> "null", v |-> 0]

\* the transaction objects the letters stand for
JsonTx(p) ==
    IF p = "a" THEN [keys |-> {"date", "description", "amount", "type", "category"},
                     date |-> JDate(20240210), amount |-> JNum(3),
                     type |-> "credit", category |-> "Food"]
    ELSE IF p = "b" THEN [keys |-> {"date", "description", "amount", "type", "category"},
                     date |-> JDate(20231220), amount |-> JNum(2),
                     type |-> "debit", category |-> Null]
    ELSE IF p = "c" THEN [keys |-> {"date", "description", "amount", "type"},
                     date |-> JDate(20240210), amount |-> JNum(-2),
                     type |-> "debit", category |-> Null]
    ELSE IF p = "n" THEN [keys |-> {"date", "description", "amount", "type", "category"},
                     date |-> JText, amount |-> JNull,
                     type |-> "debit", category |-> "Food"]
    ELSE [keys |-> {"Date", "Description", "Amount", "Type", "Category"},
          date |-> JDate(20231220), amount |-> JNum(-2),
          type |-> "debit", category |-> "Food"]

\* the text of an array of transaction objects, bare or under the wrapper
RECURSIVE array_body(_)
array_body(items) ==
    IF items = <<>> THEN <<>>
    ELSE <<"{", items[1], "}">> \o
         (IF Len(items) > 1 THEN <<",">> ELSE <<>>) \o array_body(Tail(items))
Serialize(wrapper, items) ==
    IF wrapper THEN <<"{", "T", "[">> \o array_body(items) \o <<"]", "}">>
    ELSE <<"[">> \o array_body(items) \o <<"]">>

\* the tokens of a text that are not white space
strip(s) == SelectSeq(s, LAMBDA ch : ch # "\n")

\* s is the text of an array: [ ] or [ {p} , {p} ... ]
is_array(s) ==
    /\ Len(s) >= 2 /\ s[1] = "[" /\ s[Len(s)] = "]"
    /\ (Len(s) = 2 \/ (Len(s) - 2) % 4 = 3)
    /\ \A i \in 2..(Len(s) - 1) :
          IF (i - 1) % 4 = 1 THEN s[i] = "{"
          ELSE IF (i - 1) % 4 = 2 THEN s[i] \in Payloads
          ELSE IF (i - 1) % 4 = 3 THEN s[i] = "}"
          ELSE s[i] = ","
array_items(s) ==
    LET n == (Len(s) - 1) \div 4
    IN  [k \in 1..n |-> s[4 * k - 1]]

\* json.loads: a list, or a dict with or without the key "transactions";
\* ok is FALSE where it raises JSONDecodeError
json_loads(text) ==
    LET s == strip(text)
    IN  IF is_array(s)
        THEN [ok |-> TRUE, type |-> "list", has_transactions |-> FALSE,
              items |-> array_items(s)]
        ELSE IF s = <<"{", "}">> \/ (Len(s) = 3 /\ s[1] = "{" /\ s[2] \in Payloads /\ s[3] = "}")
        THEN [ok |-> TRUE, type |-> "dict", has_transactions |-> FALSE, items |-> <<>>]
        ELSE IF Len(s) >= 5 /\ s[1] = "{" /\ s[2] = "T" /\ s[Len(s)] = "}"
                /\ is_array(SubSeq(s, 3, Len(s) - 1))
        THEN [ok |-> TRUE, type |-> "dict", has_transactions |-> TRUE,
              items |-> array_items(SubSeq(s, 3, Len(s) - 1))]
        ELSE [ok |-> FALSE, type |-> "none", has_transactions |-> FALSE, items |-> <<>>]

\* str.rfind of "}," and of "}": the position of the brace, 0 when not found
rfind_brace_comma(s) ==
    LET hits == { i \in 1..(Len(s) - 1) : s[i] = "}" /\ s[i + 1] = "," }
    IN  IF hits = {} THEN 0 ELSE CHOOSE i \in hits : \A j \in hits : j <= i
rfind_brace(s) ==
    LET hits == { i \in 1..Len(s) : s[i] = "}" }
    IN  IF hits = {} THEN 0 ELSE CHOOSE i \in hits : \A j \in hits : j <= i

\* _fix_truncated_json: the text up to the last "}," (else the last "}"),
\* closed by "]" or, when the text names "transactions", by "]\n}";
\* ok is FALSE where it raises ValueError
fix_truncated_json(s) ==
    LET last == IF rfind_brace_comma(s) # 0 THEN rfind_brace_comma(s) ELSE rfind_brace(s)
    IN  IF last = 0 THEN [ok |-> FALSE, text |-> <<>>]
        ELSE IF \E i \in 1..Len(s) : s[i] = "T"
        THEN [ok |-> TRUE, text |-> SubSeq(s, 1, last) \o <<"]", "\n", "}">>]
        ELSE [ok |-> TRUE, text |-> SubSeq(s, 1, last) \o <<"]">>]

\* pd.to_datetime(errors='coerce') and pd.to_numeric(errors='coerce')
to_datetime(j) == IF j.kind = "date" THEN j.v ELSE NaT
to_numeric(j) == IF j.kind = "num" THEN Num(j.v) ELSE NaN

\* str.lower() of a field name
lower(k) ==
    IF k = "Date" THEN "date"
    ELSE IF k = "Description" THEN "description"
    ELSE IF k = "Amount" THEN "amount"
    ELSE IF k = "Type" THEN "type"
    ELSE IF k = "Category" THEN "category"
    ELSE k

\* the field named k whatever its case: the member of the object that ends
\* up in the column k of the frame
has_field(t, k) == \E key \in t.keys : lower(key) = k

\* pd.DataFrame(transactions), date and amount coerced where the frame has a
\* column of exactly that name, and the column names lowercased after that:
\* the columns are the keys of all the objects, a key an object lacks is
\* missing in its row, and a date under another name than "date" stays the
\* JSON value it was (an amount that is a JSON number or null is numeric with
\* or without to_numeric)
frame_of(items) ==
    LET keys == UNION { JsonTx(items[i]).keys : i \in 1..Len(items) }
        cols == { lower(k) : k \in keys }
    IN  [columns |-> cols,
         dup |-> { c \in cols : Cardinality({ k \in keys : lower(k) = c }) > 1 },
         rows |-> [i \in 1..Len(items) |->
            LET t == JsonTx(items[i])
            IN  [idx |-> i,
                 date |-> IF has_field(t, "date") THEN to_datetime(t.date) ELSE NaT,
                 date_json |-> IF "date" \in t.keys \/ ~has_field(t, "date") THEN ""
                               ELSE t.date.kind,
                 amount |-> IF has_field(t, "amount") THEN to_numeric(t.amount) ELSE NaN,
                 type |-> IF has_field(t, "type") THEN t.type ELSE Null,
                 category |-> IF has_field(t, "category") THEN t.category ELSE Null,
                 month |-> 0, year |-> 0, year_month |-> NaT]]]

NoFrame == [columns |-> {}, dup |-> {}, rows |-> <<>>]

\* what the body of a try block of _parse_gpt_response does with the loaded
\* data: data.get raises AttributeError on a list
get_transactions(data) ==
    IF data.type = "list" THEN [raised |-> "AttributeError", df |-> NoFrame]
    ELSE [raised |-> "none", df |-> frame_of(data.items)]

\* an exception: its type and the statement that raised it
Raised(type, at) == [raised |-> type, at |-> at]

\* the exception of the inner try block: of _fix_truncated_json, of the
\* second json.loads or of the statements behind it
inner_error(fixed, again) ==
    IF ~fixed.ok THEN Raised("ValueError", "_fix_truncated_json(content)")
    ELSE IF ~again.ok THEN Raised("JSONDecodeError", "json.loads(fixed_content)")
    ELSE Raised(get_transactions(again).raised, "data.get")

\* `except Exception as inner_e: raise e`: the exception that leaves the
\* handler of the inner try block
raise_inner(e, inner_e) == inner_e
raise_original(e, inner_e) == e

\* _parse_gpt_response: the DataFrame it returns or the exception it raises
\* (and where it was raised), whether _fix_truncated_json was called, and how
\* often json.loads was
parse_gpt_response(finish_reason, content) ==
    LET data == json_loads(content)
        e == Raised("JSONDecodeError", "json.loads(content)")
        fixed == fix_truncated_json(content)
        again == json_loads(fixed.text)
    IN  IF data.ok
        THEN get_transactions(data) @@
             [at |-> IF data.type = "list" THEN "data.get" ELSE "",
              repaired |-> FALSE, loads |-> 1]
        ELSE IF finish_reason = "length"
        THEN IF fixed.ok /\ again.ok /\ get_transactions(again).raised = "none"
             THEN get_transactions(again) @@ [at |-> "", repaired |-> TRUE, loads |-> 2]
             ELSE raise_original(e, inner_error(fixed, again)) @@
                  [df |-> NoFrame, repaired |-> TRUE, loads |-> IF fixed.ok THEN 2 ELSE 1]
        ELSE e @@ [df |-> NoFrame, repaired |-> FALSE, loads |-> 1]

\* ------------------------------------------------------------ _preprocess_text
\* A statement text is the sequence of its characters.  The texts are put
\* together from a few pieces: the start of a page footer, a digit, a blank,
\* a line break, the letters l and O, another lowercase and another
\* uppercase letter.
Digits == {"0", "1"}
Whitespace == {" ", "\n"}
PageOf == <<"P", "a", "g", "e", " ", "1", " ", "o", "f", " ">>
Pieces == { PageOf, <<"1">>, <<" ">>, <<"\n">>, <<"l">>, <<"O">>, <<"a">>, <<"B">> }

\* the text of a sequence of pieces
RECURSIVE join(_)
join(ps) == IF ps = <<>> THEN <<>> ELSE ps[1] \o join(Tail(ps))

\* the number of digits of s from position i on: what \d+ matches there
RECURSIVE digits_at(_, _)
digits_at(s, i) ==
    IF i > Len(s) \/ s[i] \notin Digits THEN 0 ELSE 1 + digits_at(s, i + 1)

\* s has the characters w at position i
literal_at(s, i, w) ==
    /\ i + Len(w) - 1 <= Len(s)
    /\ SubSeq(s, i, i + Len(w) - 1) = w

\* the length of the match of 'Page \d+ of \d+' at position i, 0 for none
match_page(s, i) ==
    LET d1 == digits_at(s, i + 5)
        d2 == digits_at(s, i + 5 + d1 + 4)
    IN  IF /\ literal_at(s, i, <<"P", "a", "g", "e", " ">>) /\ d1 > 0
           /\ literal_at(s, i + 5 + d1, <<" ", "o", "f", " ">>) /\ d2 > 0
        THEN 5 + d1 + 4 + d2
        ELSE 0

\* re.sub(r'Page \d+ of \d+', '', text) from position i on: the matches are
\* found left to right in the text as it was, and not in what is left
RECURSIVE sub_page_from(_, _)
sub_page_from(s, i) ==
    IF i > Len(s) THEN <<>>
    ELSE IF match_page(s, i) > 0 THEN sub_page_from(s, i + match_page(s, i))
    ELSE <<s[i]>> \o sub_page_from(s, i + 1)
sub_page(s) == sub_page_from(s, 1)

\* re.sub(r'\s+', ' ', text): a run of white space becomes one blank
sub_whitespace(s) ==
    SelectSeq([i \in 1..Len(s) |->
                  IF s[i] \notin Whitespace THEN s[i]
                  ELSE IF i > 1 /\ s[i - 1] \in Whitespace THEN "" ELSE " "],
              LAMBDA ch : ch # "")

\* re.sub(r'l(\d)', r'1\1', text) and re.sub(r'O(\d)', r'0\1', text): the
\* letter before a digit is replaced, the digit kept
sub_lower_digit(s) ==
    [i \in 1..Len(s) |->
        IF s[i] \in {"l", "a", "g", "e", "o", "f"} /\ i < Len(s) /\ s[i + 1] \in Digits
        THEN "1" ELSE s[i]]
sub_l_digit(s) ==
    [i \in 1..Len(s) |->
        IF s[i] = "l" /\ i < Len(s) /\ s[i + 1] \in Digits THEN "1" ELSE s[i]]
sub_O_digit(s) ==
    [i \in 1..Len(s) |->
        IF s[i] = "O" /\ i < Len(s) /\ s[i + 1] \in Digits THEN "0" ELSE s[i]]

\* _preprocess_text
preprocess_text(t) == sub_O_digit(sub_l_digit(sub_whitespace(sub_page(t))))

\* extract_transactions on a completion: the DataFrame of the parser, None
\* when the parser raised
extract_transactions(resp) ==
    LET out == parse_gpt_response(resp.finish_reason, resp.content)
    IN  IF out.raised # "none" THEN None ELSE Some(out.df)

\* ------------------------------------------------------------ app2
\* the replies of the extraction service: the status, the body of a failure,
\* and the finish_reason and the content of a completion
StatusCodes == {200, 429}
FinishReasons == {"stop", "length"}
Completion(finish_reason, content) ==
    [status_code |-> 200, text |-> "", finish_reason |-> finish_reason, content |-> content]
Failure(status, text) ==
    [status_code |-> status, text |-> text, finish_reason |-> "", content |-> <<>>]
NoResponse == [status_code |-> 0, text |-> "", finish_reason |-> "", content |-> <<>>]

\* _call_azure_openai: raises on a status other than 200, else returns the reply
call_azure_openai_unchecked(resp) == "none"
call_azure_openai(resp) == IF resp.status_code # 200 THEN "Exception" ELSE "none"

\* what the insight service does: a reply with or without the keys, a status
\* other than 200, or a failed call
InsightReplies == {"complete", "summary only", "no keys", "status", "exception"}

\* _calculate_financial_health: the factors a ledger of a few rows can move,
\* the net flow and the average savings rate (in hundredths of a percent;
\* every comparison with the NaN of an empty table is false)
calculate_financial_health(summary) ==
    LET r == summary.avg_savings_rate
        above(pct) == r.n > 0 /\ r.sum > pct * 100 * r.n
        score == 50 + (IF summary.net_flow > 0 THEN 10 ELSE 0)
                    + (IF above(30) THEN 15
                       ELSE IF above(20) THEN 10
                       ELSE IF above(10) THEN 5
                       ELSE IF r.n > 0 /\ r.sum < 0 THEN -15 ELSE 0)
    IN  IF score < 0 THEN 0 ELSE IF score > 100 THEN 100 ELSE score

\* _generate_insights_with_gpt: the dict it returns, the JSON object of the
\* service with the keys it has, or one of the two fallback dicts
generate_insights_with_gpt(reply) ==
    IF reply = "complete"
    THEN [keys |-> {"summary", "tips", "custom_advice"},
          summary |-> "gpt", tips |-> <<"gpt">>, custom_advice |-> "gpt"]
    ELSE IF reply = "summary only"
    THEN [keys |-> {"summary"}, summary |-> "gpt", tips |-> Null, custom_advice |-> Null]
    ELSE IF reply = "no keys"
    THEN [keys |-> {}, summary |-> Null, tips |-> Null, custom_advice |-> Null]
    ELSE IF reply = "status"
    THEN [keys |-> {"summary", "tips", "custom_advice"},
          summary |-> "During this period ... Your savings rate was",
          tips |-> <<"Track your expenses regularly to identify potential savings">>,
          custom_advice |-> "Focus on building an emergency fund"]
    ELSE [keys |-> {"summary", "tips", "custom_advice"},
          summary |-> "During this period",
          tips |-> <<"Track your expenses regularly">>,
          custom_advice |-> "Consider reviewing your spending"]

\* dict.get(key, default)
dict_get_no_default(d, key, default) == d[key]
dict_get(d, key, default) == IF key \in d.keys THEN d[key] ELSE default

\* generate_financial_summary: the dict it returns, its keys defaulted
generate_financial_summary(bundle, reply) ==
    LET insights == generate_insights_with_gpt(reply)
    IN  [summary |-> dict_get(insights, "summary", ""),
         tips |-> dict_get(insights, "tips", <<>>),
         health_score |-> calculate_financial_health(bundle.summary),
         custom_advice |-> dict_get(insights, "custom_advice", "")]

\* the exception generate_financial_summary raises before it calls the
\* service: groupby of a column the extracted DataFrame lacks
insights_error(df) ==
    IF "description" \notin df.columns \/ "category" \notin df.columns
    THEN "KeyError" ELSE "none"

\* the Filtered Results Summary of the Transactions view with no filter
\* applied: the three sums of the amounts of the ledger of the session
filtered_results_summary(df) ==
    [total_credits |-> sum(positive(df.rows)),
     total_debits |-> abs(sum(negative(df.rows))),
     net_amount |-> sum(df.rows)]

\* the session state of a new session
NewSession(key) ==
    [transactions_df |-> None, analysis_results |-> None, analyzer |-> None,
     file_processed |-> FALSE, api_key |-> key, financial_insights |-> None]

\* st.error, st.success: what the page shows after a run
NoMessage == [kind |-> "none", text |-> "", exc |-> "", status |-> 0, body |-> "", count |-> 0]
Error(text) == [NoMessage EXCEPT !.kind = "error", !.text = text]
ErrorProcessing(exc, status, body) ==
    [kind |-> "error", text |-> "Error processing file", exc |-> exc,
     status |-> status, body |-> body, count |-> 0]
Success(n) == [NoMessage EXCEPT !.kind = "success", !.text = "Successfully extracted", !.count = n]

\* the calls one run has made
NoCalls == [extract_text |-> 0, post |-> 0, parse |-> 0, load_data |-> 0,
            preprocess_data |-> 0, analyze_cash_flow |-> 0, insights |-> 0,
            insight_service |-> 0]

\* the guard of the run: extraction returned a DataFrame that is not empty
has_transactions_not_none(raised, df) == raised = "none"
has_transactions(raised, df) == raised = "none" /\ ~Empty(df)

\* the guard of the Export to Excel and Export to CSV buttons
export_enabled(sess) == sess.transactions_df # None /\ sess.analyzer # None

\* what the Start Over button does to the session
start_over_keeps_insights(sess) ==
    [sess EXCEPT !.transactions_df = None, !.analysis_results = None,
                 !.analyzer = None, !.file_processed = FALSE]
start_over(sess) ==
    [sess EXCEPT !.transactions_df = None, !.analysis_results = None,
                 !.analyzer = None, !.financial_insights = None,
                 !.file_processed = FALSE]

\* the main workflow on an uploaded file: the session, the message and the
\* calls when the run ends, from the session before and what the collaborators do
run_upload(sess, pdf_ok, resp, reply) ==
    LET parsed == parse_gpt_response(resp.finish_reason, resp.content)
        df == parsed.df
        clean == preprocessed(loaded(df))
        kept == [sess EXCEPT !.transactions_df = Some(df)]
        stored == [sess EXCEPT !.transactions_df = Some(dates_converted(df))]
        analyzer == [transactions |-> clean, analysis_results |-> analysis_of(clean)]
        analyzed == [stored EXCEPT !.analyzer = Some(analyzer),
                                   !.analysis_results = Some(analyzer.analysis_results)]
    IN  IF sess.api_key = ""
        THEN [session |-> sess, calls |-> NoCalls,
              message |-> Error("Please enter your Azure OpenAI API key")]
        ELSE IF ~pdf_ok
        THEN [session |-> sess, calls |-> [NoCalls EXCEPT !.extract_text = 1],
              message |-> ErrorProcessing("PdfReadError", 0, "")]
        ELSE IF call_azure_openai(resp) # "none"
        THEN [session |-> sess,
              calls |-> [NoCalls EXCEPT !.extract_text = 1, !.post = 1],
              message |-> ErrorProcessing("Exception", resp.status_code, resp.text)]
        ELSE IF ~has_transactions(parsed.raised, df)
        THEN [session |-> sess,
              calls |-> [NoCalls EXCEPT !.extract_text = 1, !.post = 1, !.parse = 1],
              message |-> Error("No transactions were found in the uploaded statement")]
        ELSE IF load_error(df) # "none"
        THEN [session |-> kept,
              calls |-> [NoCalls EXCEPT !.extract_text = 1, !.post = 1, !.parse = 1,
                                        !.load_data = 1],
              message |-> ErrorProcessing(load_error(df), 0, "")]
        ELSE IF analyze_error(clean) # "none"
        THEN [session |-> stored,
              calls |-> [NoCalls EXCEPT !.extract_text = 1, !.post = 1, !.parse = 1,
                                        !.load_data = 1, !.preprocess_data = 1,
                                        !.analyze_cash_flow = 1],
              message |-> ErrorProcessing(analyze_error(clean), 0, "")]
        ELSE IF insights_error(df) # "none"
        THEN [session |-> analyzed,
              calls |-> [NoCalls EXCEPT !.extract_text = 1, !.post = 1, !.parse = 1,
                                        !.load_data = 1, !.preprocess_data = 1,
                                        !.analyze_cash_flow = 1, !.insights = 1],
              message |-> ErrorProcessing(insights_error(df), 0, "")]
        ELSE [session |-> [analyzed EXCEPT
                              !.financial_insights =
                                  Some(generate_financial_summary(analyzer.analysis_results, reply)),
                              !.file_processed = TRUE],
              calls |-> [NoCalls EXCEPT !.extract_text = 1, !.post = 1, !.parse = 1,
                                        !.load_data = 1, !.preprocess_data = 1,
                                        !.analyze_cash_flow = 1, !.insights = 1,
                                        !.insight_service = 1],
              message |-> Success(Len(df.rows))]

\* ------------------------------------------------------------ state
VARIABLES
    unit,              \* what is exercised: the analyzer, the parser or the app
    raw,               \* the DataFrame handed to load_data
    transactions,      \* CashFlowAnalyzer.transactions: None or a DataFrame
    analysis_results,  \* CashFlowAnalyzer.analysis_results: {} or the bundle
    last_call,         \* the method of the analyzer called last
    raised,            \* the exception that call raised, "none" if it returned
    output,            \* what that call drew or wrote, None if it was no chart or export
    response,          \* the reply of the extraction service
    parsed,            \* what _parse_gpt_response made of it: None before the call
    upload,            \* the uploaded file: whether it reads; how the insight service replied when last called
    session,           \* st.session_state
    message,           \* the message the page shows
    calls,             \* the calls made by the last run
    text,              \* the text of a statement as read from the PDF
    cleaned            \* what _preprocess_text returned, call after call

avars == <<raw, transactions, analysis_results, last_call, raised, output>>
pvars == <<response, parsed>>
svars == <<upload, session, message, calls>>
tvars == <<text, cleaned>>
vars == <<unit, avars, pvars, svars, tvars>>

\* the values of the variables of a unit that is not exercised
AnalyzerIdle ==
    /\ raw = NoFrame /\ transactions = None /\ analysis_results = None
    /\ last_call = "" /\ raised = "none" /\ output = None
ParserIdle == parsed = None
AppIdle ==
    /\ upload = [pdf_ok |-> TRUE, reply |-> ""]
    /\ session = NewSession("") /\ message = NoMessage /\ calls = NoCalls
TextIdle == text = <<>> /\ cleaned = <<>>

\* CashFlowAnalyzer(): no ledger, no results; the raw ledger to load is any
\* of at most MaxRows transactions, or the ledger of the worked example
AnalyzerInit ==
    /\ unit = "CashFlowAnalyzer"
    /\ \/ \E cols \in ColumnSets : \E k \in 0..MaxRows : \E txs \in [1..k -> RawTx(cols)] :
              raw = DataFrame(txs, cols)
       \/ raw = ScenarioLedger
    /\ transactions = None
    /\ analysis_results = None
    /\ last_call = "__init__"
    /\ raised = "none"
    /\ output = None
    /\ response = NoResponse /\ ParserIdle /\ AppIdle /\ TextIdle

\* the replies the extraction service can give: a failure, or a completion
\* whose content is the text of up to MaxItems transactions, whole or cut off
\* anywhere
IsReply(resp) ==
    \/ \E st \in StatusCodes \ {200} : resp = Failure(st, "rate limit")
    \/ \E fr \in FinishReasons, w \in BOOLEAN, k \in 0..MaxItems :
         \E items \in [1..k -> Payloads] :
            \E cut \in 0..Len(Serialize(w, items)) :
                resp = Completion(fr, SubSeq(Serialize(w, items), 1, cut))

\* the parser at a completion of the service
ParserInit ==
    /\ unit = "GPTBankStatementExtractor"
    /\ IsReply(response) /\ response.status_code = 200
    /\ parsed = None
    /\ AnalyzerIdle /\ AppIdle /\ TextIdle

\* the app before the first run, with or without an API key
AppInit ==
    /\ unit = "app"
    /\ IsReply(response)
    /\ upload \in [pdf_ok : BOOLEAN, reply : {""}]
    /\ session \in { NewSession(key) : key \in {"", "key"} }
    /\ message = NoMessage
    /\ calls = NoCalls
    /\ AnalyzerIdle /\ ParserIdle /\ TextIdle

\* the text normalizer before its first call, on any text of at most
\* MaxPieces pieces
TextInit ==
    /\ unit = "_preprocess_text"
    /\ \E k \in 0..MaxPieces : \E ps \in [1..k -> Pieces] : text = join(ps)
    /\ cleaned = <<>>
    /\ response = NoResponse
    /\ AnalyzerIdle /\ ParserIdle /\ AppIdle

Init == AnalyzerInit \/ ParserInit \/ AppInit \/ TextInit

\* load_data(df): keeps the frame, makes its dates Timestamps and sorts it by
\* date; the frame is kept as it is when that raises; the bundle is not touched
load_data ==
    /\ unit = "CashFlowAnalyzer"
    /\ \E df \in Statements(raw) :
          /\ raw' = df
          /\ transactions' = Some(loaded(df))
          /\ raised' = load_error(df)
    /\ last_call' = "load_data"
    /\ output' = None
    /\ UNCHANGED <<unit, analysis_results, pvars, svars, tvars>>

\* preprocess_data(): rejects no ledger and an empty one, else rewrites the ledger
preprocess_data ==
    /\ unit = "CashFlowAnalyzer"
    /\ IF transactions = None \/ Empty(Get(transactions))
       THEN /\ raised' = "ValueError"
            /\ UNCHANGED transactions
       ELSE /\ raised' = "none"
            /\ transactions' = Some(preprocessed(Get(transactions)))
    /\ last_call' = "preprocess_data"
    /\ output' = None
    /\ UNCHANGED <<unit, raw, analysis_results, pvars, svars, tvars>>

\* analyze_cash_flow(): rejects no ledger and an empty one; the bundle is
\* stored only when every step has succeeded
analyze_cash_flow ==
    /\ unit = "CashFlowAnalyzer"
    /\ IF transactions = None \/ Empty(Get(transactions))
       THEN /\ raised' = "ValueError"
            /\ UNCHANGED analysis_results
       ELSE /\ raised' = analyze_error(Get(transactions))
            /\ analysis_results' =
                   IF analyze_error(Get(transactions)) = "none"
                   THEN Some(analysis_of(Get(transactions)))
                   ELSE analysis_results
    /\ last_call' = "analyze_cash_flow"
    /\ output' = None
    /\ UNCHANGED <<unit, raw, transactions, pvars, svars, tvars>>

\* generate_monthly_cash_flow_chart(): analyzes when no bundle is held, then
\* draws monthly_income_vs_expenses of the bundle held
generate_monthly_cash_flow_chart ==
    /\ unit = "CashFlowAnalyzer"
    /\ LET had == analyzed_if_missing(transactions, analysis_results)
       IN  /\ raised' = had.raised
           /\ analysis_results' = had.results
           /\ output' = IF had.raised = "none" THEN Some(chart_of(Get(had.results)))
                         ELSE None
    /\ last_call' = "generate_monthly_cash_flow_chart"
    /\ UNCHANGED <<unit, raw, transactions, pvars, svars, tvars>>

\* export_to_excel(): analyzes when no bundle is held, then writes the ledger
\* and the tables of the bundle held
export_to_excel ==
    /\ unit = "CashFlowAnalyzer"
    /\ LET had == analyzed_if_missing(transactions, analysis_results)
       IN  /\ raised' = had.raised
           /\ analysis_results' = had.results
           /\ output' = IF had.raised = "none"
                         THEN Some(excel_of(Get(transactions), Get(had.results)))
                         ELSE None
    /\ last_call' = "export_to_excel"
    /\ UNCHANGED <<unit, raw, transactions, pvars, svars, tvars>>

\* _parse_gpt_response(response)
ParseGptResponse ==
    /\ unit = "GPTBankStatementExtractor"
    /\ parsed = None
    /\ parsed' = Some(parse_gpt_response(response.finish_reason, response.content))
    /\ UNCHANGED <<unit, response, avars, svars, tvars>>

\* the main workflow: a file is uploaded while no file is processed; the
\* insight service, when the run calls it, replies in any of its ways
ProcessUpload ==
    /\ unit = "app"
    /\ ~session.file_processed
    /\ \E reply \in InsightReplies :
          LET out == run_upload(session, upload.pdf_ok, response, reply)
          IN  /\ session' = out.session
              /\ message' = out.message
              /\ calls' = out.calls
              /\ upload' = IF out.calls.insight_service = 1
                           THEN [upload EXCEPT !.reply = reply] ELSE upload
    /\ UNCHANGED <<unit, avars, pvars, tvars>>

\* the Start Over button: shown once a file is processed
StartOver ==
    /\ unit = "app"
    /\ session.file_processed
    /\ session' = start_over(session)
    /\ UNCHANGED <<unit, upload, message, calls, avars, pvars, tvars>>

\* the Export to Excel button: shown while the session holds a ledger and an
\* analyzer; the analyzer of the session writes its ledger and its bundle
ExportToExcel ==
    /\ unit = "app"
    /\ export_enabled(session)
    /\ LET analyzer == Get(session.analyzer)
       IN  output' = Some(excel_of(analyzer.transactions, analyzer.analysis_results))
    /\ UNCHANGED <<unit, raw, transactions, analysis_results, last_call, raised,
                   pvars, svars, tvars>>

\* _preprocess_text(text), then on what it returned
PreprocessText ==
    /\ unit = "_preprocess_text"
    /\ Len(cleaned) < MaxPasses
    /\ cleaned' = Append(cleaned, preprocess_text(IF cleaned = <<>> THEN text
                                                   ELSE cleaned[Len(cleaned)]))
    /\ UNCHANGED <<unit, text, avars, pvars, svars>>

Next ==
    \/ load_data
    \/ preprocess_data
    \/ analyze_cash_flow
    \/ generate_monthly_cash_flow_chart
    \/ export_to_excel
    \/ ParseGptResponse
    \/ ProcessUpload
    \/ StartOver
    \/ ExportToExcel
    \/ PreprocessText

Spec == Init /\ [][Next]_vars

\* ------------------------------------------------------------ claims
\* the ledger and the bundle the analyzer holds
Ledger == Get(transactions).rows
Bundle == Get(analysis_results)
\* preprocess_data has returned, on the ledger load_data made of raw
Preprocessed == last_call = "preprocess_data" /\ raised = "none"
\* analyze_cash_flow has returned, and stored the bundle of the ledger
Analyzed == last_call = "analyze_cash_flow" /\ raised = "none"
\* the raw transaction a ledger row comes from
RawOf(r) == raw.rows[r.idx]

\* C1 as claimed: after load_data and preprocess_data every debit row has
\* amount <= 0 and every credit row amount >= 0
C1_SignInvariantAllRows ==
    Preprocessed =>
        \A i \in 1..Len(Ledger) :
            /\ (Ledger[i].type = "debit" => Le0(Ledger[i].amount))
            /\ (Ledger[i].type = "credit" => Ge0(Ledger[i].amount))

\* C1 amended: after load_data and preprocess_data every debit row whose amount
\* is usable has amount = -|raw amount| <= 0 and every such credit row has
\* amount = |raw amount| >= 0; a missing amount stays missing
C1_SignInvariant ==
    Preprocessed =>
        \A i \in 1..Len(Ledger) :
            LET r == Ledger[i]
                a == RawOf(r).amount
            IN  /\ r.amount.nan = a.nan
                /\ (~a.nan /\ r.type = "debit") =>
                        (r.amount.v <= 0 /\ r.amount.v \in {a.v, -a.v})
                /\ (~a.nan /\ r.type = "credit") =>
                        (r.amount.v >= 0 /\ r.amount.v \in {a.v, -a.v})

\* C1 witness: a debit extracted with a positive amount is negative in the ledger
C1_Witness ==
    /\ Preprocessed
    /\ \E i \in 1..Len(Ledger) :
          /\ Ledger[i].type = "debit"
          /\ Gt0(RawOf(Ledger[i]).amount)
          /\ Lt0(Ledger[i].amount)

\* the calendar months from year_month lo to year_month hi
MonthsBetween(lo, hi) == { ym \in lo..hi : ym % 100 \in 1..12 }
\* the number of rows of monthly_income_vs_expenses of month ym
MiveCount(ym) ==
    Cardinality({ k \in 1..Len(Bundle.monthly_income_vs_expenses) :
                    Bundle.monthly_income_vs_expenses[k].year_month = ym })
\* the calendar months from the first to the last transaction date
LedgerMonths == MonthsBetween(min_date(Ledger) \div 100, max_date(Ledger) \div 100)

\* C2 as claimed: monthly_income_vs_expenses has exactly one row for every
\* calendar month from the first to the last transaction date
C2_MonthCoverageRange ==
    Analyzed => \A ym \in LedgerMonths : MiveCount(ym) = 1

\* C3: the months of monthly_income_vs_expenses are the months with a positive
\* row together with the months with a negative row, each once; a month
\* without positive rows has income 0, one without negative rows expenses 0
C3_UnionOfMonths ==
    Analyzed =>
        LET mive == Bundle.monthly_income_vs_expenses
            HasPos(ym) == \E i \in 1..Len(Ledger) :
                             Ledger[i].year_month = ym /\ Gt0(Ledger[i].amount)
            HasNeg(ym) == \E i \in 1..Len(Ledger) :
                             Ledger[i].year_month = ym /\ Lt0(Ledger[i].amount)
        IN  /\ \A i \in 1..Len(Ledger) :
                   (Ledger[i].year_month # NaT /\
                    (Gt0(Ledger[i].amount) \/ Lt0(Ledger[i].amount)))
                       => MiveCount(Ledger[i].year_month) = 1
            /\ \A k \in 1..Len(mive) :
                   /\ HasPos(mive[k].year_month) \/ HasNeg(mive[k].year_month)
                   /\ MiveCount(mive[k].year_month) = 1
                   /\ ~HasPos(mive[k].year_month) => mive[k].income = 0
                   /\ ~HasNeg(mive[k].year_month) => mive[k].expenses = 0
                   /\ HasPos(mive[k].year_month) => mive[k].income > 0
                   /\ HasNeg(mive[k].year_month) => mive[k].expenses > 0

\* C3 witness: a month with expenses only beside a month with income only
C3_Witness ==
    /\ Analyzed
    /\ \E k, l \in 1..Len(Bundle.monthly_income_vs_expenses) :
          LET mive == Bundle.monthly_income_vs_expenses
          IN  /\ mive[k].income = 0 /\ mive[k].expenses > 0
              /\ mive[l].income > 0 /\ mive[l].expenses = 0

\* C4: a row of monthly_income_vs_expenses with income 0 has the number 0 as
\* its savings_rate
C4_SavingsRateSafety ==
    Analyzed =>
        \A k \in 1..Len(Bundle.monthly_income_vs_expenses) :
            LET m == Bundle.monthly_income_vs_expenses[k]
            IN  m.income = 0 => (m.savings_rate.kind = "num" /\ m.savings_rate.x100 = 0)

\* C4 witness: a month with expenses and no income
C4_Witness ==
    /\ Analyzed
    /\ \E k \in 1..Len(Bundle.monthly_income_vs_expenses) :
          LET m == Bundle.monthly_income_vs_expenses[k]
          IN  m.income = 0 /\ m.expenses > 0 /\ m.savings < 0

\* C5 as claimed: the running_balance of the last row is summary.net_flow
C5_LastBalanceIsNetFlow ==
    Analyzed =>
        Bundle.running_balance[Len(Bundle.running_balance)].running_balance
            = Num(Bundle.summary.net_flow)

CutInside(w, items, cut) ==
    LET full == Serialize(w, items)
    IN  /\ cut \in 1..(Len(full) - 1)
        /\ response.content = SubSeq(full, 1, cut)
        /\ \/ full[cut] \in Payloads
           \/ full[cut] = "{" /\ full[cut + 1] \in Payloads
\* the transactions whose object is complete in the first cut tokens
CompleteBefore(w, items, cut) ==
    SubSeq(items, 1, Cardinality({ i \in 1..cut : Serialize(w, items)[i] = "}" }))

\* C6: a reply cut off inside a transaction object with finish_reason
\* "length" parses to exactly the transactions complete before the cut, in
\* their order, and raises the parse error when there is none
C6_TruncationRoundTrip ==
    (parsed # None /\ response.finish_reason = "length") =>
        \A w \in BOOLEAN, k \in 0..MaxItems :
            \A items \in [1..k -> Payloads] :
                \A cut \in 1..Len(Serialize(w, items)) :
                    CutInside(w, items, cut) =>
                        IF CompleteBefore(w, items, cut) = <<>>
                        THEN Get(parsed).raised = "JSONDecodeError"
                        ELSE /\ Get(parsed).raised = "none"
                             /\ Get(parsed).df = frame_of(CompleteBefore(w, items, cut))

\* C7: a reply that is a whole array of transactions and a reply that is the
\* same array under the "transactions" wrapper both parse, without raising,
\* to the ledger of those transactions
C7_BothShapes ==
    parsed # None =>
        \A w \in BOOLEAN, k \in 0..MaxItems :
            \A items \in [1..k -> Payloads] :
                response.content = Serialize(w, items) =>
                    /\ Get(parsed).raised = "none"
                    /\ Get(parsed).df = frame_of(items)

\* a run of the app has ended, the API key set and the upload readable
RunEnded == unit = "app" /\ message.kind # "none" /\ session.api_key # "" /\ upload.pdf_ok
\* the session holds nothing of a run
SessionBlank ==
    /\ session.transactions_df = None /\ session.analyzer = None
    /\ session.analysis_results = None /\ session.financial_insights = None
    /\ ~session.file_processed

\* C8: a reply of a status other than 200 ends the run with the error that
\* carries the status and the body: one request, no parse, no load_data,
\* preprocess_data or analyze_cash_flow, nothing stored
C8_NonSuccessIsFatal ==
    (RunEnded /\ response.status_code # 200) =>
        /\ message.kind = "error" /\ message.exc = "Exception"
        /\ message.status = response.status_code /\ message.body = response.text
        /\ calls.post = 1 /\ calls.parse = 0
        /\ calls.load_data = 0 /\ calls.preprocess_data = 0
        /\ calls.analyze_cash_flow = 0 /\ calls.insights = 0
        /\ SessionBlank

\* C8 witness: a run ended by the status 429
C8_Witness ==
    /\ RunEnded /\ response.status_code = 429
    /\ message.status = 429 /\ message.body = "rate limit" /\ calls.post = 1

\* the reply parses to no transaction: {"transactions": []} or an object
\* without that key
ZeroTransactions ==
    /\ response.status_code = 200
    /\ json_loads(response.content).ok
    /\ json_loads(response.content).type = "dict"
    /\ json_loads(response.content).items = <<>>

\* C9: a run whose extraction yields zero transactions ends with the
\* no-transactions failure, analyze_cash_flow (and load_data, preprocess_data)
\* never called, nothing stored, the session unprocessed; preprocess_data and
\* analyze_cash_flow called on no ledger or an empty one raise ValueError and
\* store no bundle
C9_EmptyLedger ==
    /\ (RunEnded /\ ZeroTransactions) =>
          /\ message = Error("No transactions were found in the uploaded statement")
          /\ calls.load_data = 0 /\ calls.preprocess_data = 0
          /\ calls.analyze_cash_flow = 0 /\ calls.insights = 0
          /\ SessionBlank
    /\ (/\ last_call \in {"preprocess_data", "analyze_cash_flow"}
        /\ (transactions = None \/ Len(Get(transactions).rows) = 0)) =>
          /\ raised = "ValueError"
          /\ analysis_results = None

\* C9 witness: the run on the reply {"transactions": []}
C9_Witness ==
    /\ RunEnded
    /\ response.content = Serialize(TRUE, <<>>)
    /\ message.text = "No transactions were found in the uploaded statement"

\* the sum of f over the indices I
RECURSIVE SumFn(_, _)
SumFn(f, I) ==
    IF I = {} THEN 0
    ELSE LET i == CHOOSE j \in I : TRUE
         IN  f[i] + SumFn(f, I \ {i})
\* the positive amounts of the ledger rows, and the absolute values of the
\* negative ones; every other row counts 0
PositiveAmount == [i \in 1..Len(Ledger) |->
                      IF Gt0(Ledger[i].amount) THEN Ledger[i].amount.v ELSE 0]
NegativeAmount == [i \in 1..Len(Ledger) |->
                      IF Lt0(Ledger[i].amount) THEN -Ledger[i].amount.v ELSE 0]
RowsOfMonth(ym) == { i \in 1..Len(Ledger) : Ledger[i].year_month = ym }

\* C11: in every row of monthly_income_vs_expenses income is the sum of the
\* month's positive amounts, expenses the sum of the absolute values of its
\* negative amounts and savings their difference; summary.total_income and
\* summary.total_expenses are these sums over the whole ledger; the ledger of
\* the worked example gives 50000/12000/38000 for 2024-01, 0/3000/-3000 for
\* 2024-02, the totals 50000 and 15000 and net_flow 35000
C11_IncomeExpensesSavings ==
    Analyzed =>
        LET mive == Bundle.monthly_income_vs_expenses
        IN  /\ \A k \in 1..Len(mive) :
                  /\ mive[k].income = SumFn(PositiveAmount, RowsOfMonth(mive[k].year_month))
                  /\ mive[k].expenses = SumFn(NegativeAmount, RowsOfMonth(mive[k].year_month))
                  /\ mive[k].savings = mive[k].income - mive[k].expenses
            /\ Bundle.summary.total_income = SumFn(PositiveAmount, 1..Len(Ledger))
            /\ Bundle.summary.total_expenses = SumFn(NegativeAmount, 1..Len(Ledger))
            /\ raw = ScenarioLedger =>
                  /\ Len(mive) = 2
                  /\ mive[1].year_month = 202401 /\ mive[1].income = 50000
                  /\ mive[1].expenses = 12000 /\ mive[1].savings = 38000
                  /\ mive[1].savings_rate = [kind |-> "num", x100 |-> 7600]
                  /\ mive[2].year_month = 202402 /\ mive[2].income = 0
                  /\ mive[2].expenses = 3000 /\ mive[2].savings = -3000
                  /\ mive[2].savings_rate = [kind |-> "num", x100 |-> 0]
                  /\ Bundle.summary.total_income = 50000
                  /\ Bundle.summary.total_expenses = 15000
                  /\ Bundle.summary.net_flow = 35000

\* C11 witness: the bundle of the worked example, a month with income and
\* expenses beside a month with expenses only
C11_Witness ==
    /\ Analyzed /\ raw = ScenarioLedger
    /\ Len(Bundle.monthly_income_vs_expenses) = 2
    /\ Bundle.monthly_income_vs_expenses[1].savings = 38000
    /\ Bundle.monthly_income_vs_expenses[2].savings = -3000
    /\ Bundle.summary.total_expenses = 15000

\* the categories of the ledger, and its negative rows of category c
LedgerCategories == { Ledger[i].category : i \in 1..Len(Ledger) } \ {Null}
NegativeOf(c) == { i \in 1..Len(Ledger) : Ledger[i].category = c /\ Lt0(Ledger[i].amount) }

\* C12: category_spending has exactly one row for every category with a
\* negative row and none for any other, its amount the sum of the absolute
\* values of those rows, the rows in descending order of amount;
\* top_expense_category and top_expense_amount are its first row, so no
\* category has a greater amount, and they are null and 0 when the ledger has
\* no negative row
C12_CategorySpending ==
    Analyzed =>
        LET cs == Bundle.category_spending
            RowsFor(c) == { k \in 1..Len(cs) : cs[k].category = c }
        IN  /\ \A c \in LedgerCategories :
                  Cardinality(RowsFor(c)) = IF NegativeOf(c) # {} THEN 1 ELSE 0
            /\ \A k \in 1..Len(cs) :
                  /\ cs[k].category \in LedgerCategories
                  /\ cs[k].amount = SumFn(NegativeAmount, NegativeOf(cs[k].category))
                  /\ cs[k].amount <= Bundle.summary.top_expense_amount
            /\ \A k, l \in 1..Len(cs) : k < l => cs[k].amount >= cs[l].amount
            /\ cs # <<>> =>
                  /\ Bundle.summary.top_expense_category = cs[1].category
                  /\ Bundle.summary.top_expense_amount = cs[1].amount
            /\ (\A i \in 1..Len(Ledger) : ~Lt0(Ledger[i].amount)) =>
                  /\ cs = <<>>
                  /\ Bundle.summary.top_expense_category = Null
                  /\ Bundle.summary.top_expense_amount = 0

\* C12 witness: two categories, the one that sorts later by name spending
\* more and standing first
C12_Witness ==
    /\ Analyzed
    /\ Len(Bundle.category_spending) = 2
    /\ Bundle.category_spending[1].category = "Other"
    /\ Bundle.category_spending[1].amount > Bundle.category_spending[2].amount
    /\ Bundle.summary.top_expense_category = "Other"

\* C13 as claimed: on every ledger that is not empty, some or all of its
\* rows without a usable date or amount included, load_data, preprocess_data
\* and analyze_cash_flow (called on the preprocessed ledger) return without
\* raising, and analyze_cash_flow leaves the bundle of the ledger
C13_CoercionNeverFatal ==
    (unit = "CashFlowAnalyzer" /\ Len(raw.rows) > 0) =>
        /\ last_call = "load_data" => raised = "none"
        /\ (last_call = "preprocess_data" /\ transactions # None) => raised = "none"
        /\ (/\ last_call = "analyze_cash_flow"
            /\ transactions # None
            /\ "year_month" \in Get(transactions).columns) =>
               /\ raised = "none"
               /\ analysis_results = Some(analysis_of(Get(transactions)))

\* the ledger rows with a usable date and a usable amount
Usable == { i \in 1..Len(Ledger) : Ledger[i].date # NaT /\ ~Ledger[i].amount.nan }
\* the amounts of the ledger rows, a missing one counting 0
AnyAmount == [i \in 1..Len(Ledger) |->
                 IF Ledger[i].amount.nan THEN 0 ELSE Ledger[i].amount.v]

\* C14 as claimed: the ledger after load_data and preprocess_data has every
\* raw row, once, summary.transaction_count is the number of raw rows, and the
\* rows without a usable date or amount add nothing to total_income,
\* total_expenses and net_flow
C14_RowsRetainedNotCounted ==
    /\ Preprocessed =>
          /\ Len(Ledger) = Len(raw.rows)
          /\ \A j \in 1..Len(raw.rows) :
                Cardinality({ i \in 1..Len(Ledger) : Ledger[i].idx = j }) = 1
    /\ Analyzed =>
          /\ Bundle.summary.transaction_count = Len(raw.rows)
          /\ Bundle.summary.total_income = SumFn(PositiveAmount, Usable)
          /\ Bundle.summary.total_expenses = SumFn(NegativeAmount, Usable)
          /\ Bundle.summary.net_flow = SumFn(AnyAmount, Usable)

\* the ledger rows with a usable amount, whatever their date
WithAmount == { i \in 1..Len(Ledger) : ~Ledger[i].amount.nan }

\* C14 amended: the ledger after load_data and preprocess_data has every raw
\* row, once, and summary.transaction_count is the number of raw rows; a row
\* without a usable amount adds nothing to total_income, total_expenses and
\* net_flow, while a row without a usable date adds its amount to them
C14_RowsRetained ==
    /\ Preprocessed =>
          /\ Len(Ledger) = Len(raw.rows)
          /\ \A j \in 1..Len(raw.rows) :
                Cardinality({ i \in 1..Len(Ledger) : Ledger[i].idx = j }) = 1
    /\ Analyzed =>
          /\ Bundle.summary.transaction_count = Len(raw.rows)
          /\ Bundle.summary.total_income = SumFn(PositiveAmount, WithAmount)
          /\ Bundle.summary.total_expenses = SumFn(NegativeAmount, WithAmount)
          /\ Bundle.summary.net_flow = SumFn(AnyAmount, WithAmount)

\* C14 witness: a ledger of two rows analyzed, one without a usable date whose
\* amount is the total income, one without a usable amount
C14_Witness ==
    /\ Analyzed
    /\ Bundle.summary.transaction_count = 2
    /\ \E i, j \in 1..Len(Ledger) :
          /\ Ledger[i].date = NaT /\ Gt0(Ledger[i].amount)
          /\ Bundle.summary.total_income = Ledger[i].amount.v
          /\ Ledger[j].date # NaT /\ Ledger[j].amount.nan

\* the reply is a completion that is no JSON, repaired or not
Malformed ==
    /\ response.status_code = 200
    /\ parse_gpt_response(response.finish_reason, response.content).raised = "JSONDecodeError"
\* the completion {"transactions": []}: an extraction of zero transactions
EmptyCompletion == [response EXCEPT !.status_code = 200, !.finish_reason = "stop",
                                    !.content = Serialize(TRUE, <<>>)]

\* C15 as claimed: a malformed reply and a reply of zero transactions are told
\* apart: extract_transactions returns different values to its caller, and
\* the run shows the user different messages
C15_EmptyDistinctFromMalformed ==
    (RunEnded /\ Malformed) =>
        /\ extract_transactions(response) # extract_transactions(EmptyCompletion)
        /\ message # run_upload(NewSession("key"), TRUE, EmptyCompletion, upload.reply).message

\* C16 as claimed: a run that ends with an error, whichever step failed
\* (extraction, load_data, preprocess_data, analyze_cash_flow, the insights),
\* leaves transactions_df, analyzer, analysis_results and financial_insights
\* None and file_processed False
C16_RunAtomic ==
    (unit = "app" /\ message.kind = "error") => SessionBlank

\* the text the OCR repair of the first call receives, and what that call
\* returns: the repair keeps the length
BeforeRepair == sub_whitespace(sub_page(text))
Repaired == cleaned[1]
Lowercase == {"l", "a", "g", "e", "o", "f"}
Uppercase == {"O", "B", "P"}
DigitAt(s, i) == i <= Len(s) /\ s[i] \in Digits

\* C17 as claimed: every lowercase letter right before a digit is replaced by
\* "1", every uppercase letter right before a digit by "0", and a letter not
\* right before a digit is left as it is
C17_RepairByClass ==
    (unit = "_preprocess_text" /\ cleaned # <<>>) =>
        LET b == BeforeRepair
        IN  /\ Len(Repaired) = Len(b)
            /\ \A i \in 1..Len(b) :
                  /\ (b[i] \in Lowercase /\ DigitAt(b, i + 1)) => Repaired[i] = "1"
                  /\ (b[i] \in Uppercase /\ DigitAt(b, i + 1)) => Repaired[i] = "0"
                  /\ (b[i] \in Lowercase \cup Uppercase /\ ~DigitAt(b, i + 1))
                        => Repaired[i] = b[i]

\* C17 amended: the letter "l" right before a digit is replaced by "1"; the
\* letter "O" right before a digit, or right before an "l" that is itself
\* replaced, is replaced by "0"; every other character, any other letter
\* before a digit included, is left as it is
C17_RepairOfLAndO ==
    (unit = "_preprocess_text" /\ cleaned # <<>>) =>
        LET b == BeforeRepair
            IsL(j) == j <= Len(b) /\ b[j] = "l" /\ DigitAt(b, j + 1)
        IN  /\ Len(Repaired) = Len(b)
            /\ \A i \in 1..Len(b) :
                  Repaired[i] =
                     IF IsL(i) THEN "1"
                     ELSE IF b[i] = "O" /\ (DigitAt(b, i + 1) \/ IsL(i + 1)) THEN "0"
                     ELSE b[i]

\* C17 witness: a text with an "l" before a digit, now "1", and another
\* lowercase or uppercase letter before a digit, unchanged
C17_Witness ==
    /\ unit = "_preprocess_text" /\ cleaned # <<>>
    /\ LET b == BeforeRepair
       IN  \E i, j \in 1..Len(b) :
              /\ b[i] = "l" /\ DigitAt(b, i + 1) /\ Repaired[i] = "1"
              /\ b[j] \in {"a", "B"} /\ DigitAt(b, j + 1) /\ Repaired[j] = b[j]

\* C18 as claimed: _preprocess_text applied to what it returned returns the
\* same text
C18_Idempotent ==
    (unit = "_preprocess_text" /\ Len(cleaned) >= 2) => cleaned[2] = cleaned[1]

\* the bundle of the ledger the analyzer holds now, made clean
CurrentBundle == analysis_of(preprocessed(Get(transactions)))

\* C19 as claimed: whatever calls came before, a chart is drawn and an
\* export written from the aggregates of the ledger the analyzer holds now
C19_OutputOfCurrentLedger ==
    (unit = "CashFlowAnalyzer" /\ output # None) =>
        Get(output) = IF Get(output).call = "export_to_excel"
                      THEN excel_of(Get(transactions), CurrentBundle)
                      ELSE chart_of(CurrentBundle)

\* C20: _fix_truncated_json is called only when json.loads of the content
\* failed and finish_reason is "length", and json.loads is then called once
\* more at most; when the content is no JSON and finish_reason is anything
\* else the parser raises, and whenever it raises after a failed first parse
\* (the repair or the second parse or what follows it having failed) the
\* error is the JSONDecodeError of the first json.loads
C20_RepairOnceOriginalError ==
    parsed # None =>
        LET p == Get(parsed)
            first == json_loads(response.content)
        IN  /\ p.repaired => (~first.ok /\ response.finish_reason = "length")
            /\ p.loads = IF p.repaired /\ fix_truncated_json(response.content).ok
                         THEN 2 ELSE 1
            /\ (~first.ok /\ response.finish_reason # "length") =>
                   (p.raised # "none" /\ ~p.repaired)
            /\ (~first.ok /\ p.raised # "none") =>
                   (p.raised = "JSONDecodeError" /\ p.at = "json.loads(content)")

\* C20 witness: a cut-off bare array with finish_reason "length": repaired,
\* parsed a second time, the list then refused, and the first parse error
\* raised
C20_Witness ==
    /\ parsed # None
    /\ response.finish_reason = "length"
    /\ Get(parsed).repaired /\ Get(parsed).loads = 2
    /\ json_loads(fix_truncated_json(response.content).text).ok
    /\ Get(parsed).raised = "JSONDecodeError"
    /\ Get(parsed).at = "json.loads(content)"

\* C21 as claimed: whatever the case of the field names of a reply that
\* parses, the ledger _parse_gpt_response returns has lowercase column names,
\* every date of it a Timestamp or NaT and every amount a number or NaN
C21_LowercaseAndCoerced ==
    (parsed # None /\ Get(parsed).raised = "none") =>
        LET df == Get(parsed).df
        IN  /\ \A c \in df.columns : lower(c) = c
            /\ \A i \in 1..Len(df.rows) :
                  /\ df.rows[i].date_json = ""
                  /\ df.rows[i].amount.nan \in BOOLEAN

\* C22: a call of analyze_cash_flow leaves the ledger of the analyzer as it
\* is, rows, order and values, and a call that follows a call that returned
\* leaves the same bundle; a call of preprocess_data that follows a call that
\* returned leaves the same ledger
C22_PureAndIdempotent ==
    [][/\ (last_call' = "analyze_cash_flow" /\ analyze_cash_flow) =>
            /\ transactions' = transactions
            /\ Analyzed => (raised' = "none" /\ analysis_results' = analysis_results)
       /\ (Preprocessed /\ last_call' = "preprocess_data" /\ preprocess_data) =>
            (raised' = "none" /\ transactions' = transactions)]_vars

\* C22 witness: a ledger of two rows, a debit extracted with a positive
\* amount among them, preprocessed and analyzed: the bundle held is the one
\* analyze_cash_flow computes again, the ledger the one preprocess_data
\* computes again
C22_Witness ==
    /\ Analyzed
    /\ Len(Ledger) = 2
    /\ \E i \in 1..2 : Ledger[i].type = "debit" /\ Gt0(RawOf(Ledger[i]).amount)
    /\ analysis_results = Some(analysis_of(Get(transactions)))
    /\ Get(transactions) = preprocessed(Get(transactions))

\* C23: whatever the insight service does once it is called (an object
\* with all, some or none of the keys, a status other than 200, a failed
\* call), generate_financial_summary returns and the run succeeds; the result
\* has a summary, tips, a health_score from 0 to 100 and a custom_advice: those
\* of the service, "" and the empty list for the keys its object lacks, and
\* the texts of a fallback when the call failed
C23_InsightsTolerant ==
    (unit = "app" /\ calls.insight_service = 1) =>
        /\ message.kind = "success"
        /\ session.file_processed =>
              /\ session.financial_insights # None
              /\ LET fi == Get(session.financial_insights)
                     given == generate_insights_with_gpt(upload.reply).keys
                 IN  /\ fi.health_score \in 0..100
                     /\ fi.summary # Null /\ fi.tips # Null /\ fi.custom_advice # Null
                     /\ "summary" \notin given => fi.summary = ""
                     /\ "tips" \notin given => fi.tips = <<>>
                     /\ "custom_advice" \notin given => fi.custom_advice = ""
                     /\ upload.reply = "complete" =>
                           (fi.summary = "gpt" /\ fi.tips = <<"gpt">> /\ fi.custom_advice = "gpt")
                     /\ upload.reply \in {"status", "exception"} =>
                           (fi.summary \notin {"", "gpt"} /\ Len(fi.tips) > 0
                            /\ fi.custom_advice \notin {"", "gpt"})

\* C23 witness: a run that succeeded on a reply of the insight service with
\* the summary alone: the tips are the empty list, the advice ""
C23_Witness ==
    /\ unit = "app" /\ session.file_processed
    /\ upload.reply = "summary only"
    /\ Get(session.financial_insights).summary = "gpt"
    /\ Get(session.financial_insights).tips = <<>>
    /\ Get(session.financial_insights).custom_advice = ""

\* the ledger and the summary the session holds after a run that succeeded
SessionLedger == Get(session.transactions_df)
SessionSummary == Get(session.analysis_results).summary

\* C24 as claimed: after a run that succeeded every debit row of the ledger
\* of the session has amount <= 0 and every credit row amount >= 0, and with
\* no filter its Total Credits, Total Debits and Net Amount are total_income,
\* total_expenses and net_flow of the summary
C24_SessionLedgerClean ==
    (unit = "app" /\ session.file_processed) =>
        /\ \A i \in 1..Len(SessionLedger.rows) :
              LET r == SessionLedger.rows[i]
              IN  /\ (r.type = "debit" /\ ~r.amount.nan) => r.amount.v <= 0
                  /\ (r.type = "credit" /\ ~r.amount.nan) => r.amount.v >= 0
        /\ filtered_results_summary(SessionLedger).total_credits = SessionSummary.total_income
        /\ filtered_results_summary(SessionLedger).total_debits = SessionSummary.total_expenses
        /\ filtered_results_summary(SessionLedger).net_amount = SessionSummary.net_flow

\* the summaries held: the one of the analyzer after analyze_cash_flow
\* returned, the one of the session after a run stored a bundle
SummariesHeld ==
    (IF unit = "CashFlowAnalyzer" /\ Analyzed /\ Len(Ledger) > 0
     THEN {Bundle.summary} ELSE {})
    \cup (IF unit = "app" /\ session.analysis_results # None
          THEN {SessionSummary} ELSE {})

\* C25: the summary of the bundle of a ledger that is not empty has
\* net_flow = total_income - total_expenses, total_income >= 0 and
\* total_expenses >= 0
C25_SummaryConsistent ==
    \A s \in SummariesHeld :
        /\ s.net_flow = s.total_income - s.total_expenses
        /\ s.total_income >= 0
        /\ s.total_expenses >= 0

\* C25 witness: the summary of a ledger with income 3 and expenses 2,
\* net_flow 1
C25_Witness ==
    /\ Analyzed /\ Len(Ledger) = 2
    /\ Bundle.summary.total_income = 3
    /\ Bundle.summary.total_expenses = 2
    /\ Bundle.summary.net_flow = 1

\* C26 as claimed: for every ledger analyzed that is not empty, rows without
\* a usable date among them or not, the net_flow of the rows of
\* monthly_cash_flow add up to summary.net_flow, and the income and the
\* expenses of the rows of monthly_income_vs_expenses to summary.total_income
\* and summary.total_expenses
C26_MonthlyViewsPartition ==
    (Analyzed /\ Len(Ledger) > 0) =>
        LET mcf == Bundle.monthly_cash_flow
            mive == Bundle.monthly_income_vs_expenses
        IN  /\ total([k \in 1..Len(mcf) |-> mcf[k].net_flow]) = Bundle.summary.net_flow
            /\ total([k \in 1..Len(mive) |-> mive[k].income]) = Bundle.summary.total_income
            /\ total([k \in 1..Len(mive) |-> mive[k].expenses]) = Bundle.summary.total_expenses

\* C27: in every state a session with file_processed holds a ledger, an
\* analyzer, a bundle and insights; an export is made only from a session
\* that holds a ledger and an analyzer; Start Over leaves the session as a
\* new one with the same api_key
C27_SessionLifecycle ==
    /\ [](session.file_processed =>
            /\ session.transactions_df # None /\ session.analyzer # None
            /\ session.analysis_results # None /\ session.financial_insights # None)
    /\ [][/\ (unit = "app" /\ output' # output) =>
                (session.transactions_df # None /\ session.analyzer # None)
          /\ StartOver =>
                (/\ session' = NewSession(session.api_key)
                 /\ session'.api_key = session.api_key)]_vars

\* C27 witness: a session that held a processed file, exported it and was
\* started over: it is a new session with the key, the export still written
C27_Witness ==
    /\ unit = "app"
    /\ output # None
    /\ message.kind = "success"
    /\ session = NewSession("key")

====
